---------------------------- MODULE Spec2Model ----------------------------
(***************************************************************************)
(* PS Model Comparator: the metrics engine (text_analyze_metric.py), the   *)
(* executor (model_executor.py), the request validation (validation.py)    *)
(* and the compare-models run (main.py).                                   *)
(*                                                                         *)
(* Numbers.  Python floats are modelled as exact fixed-point integers:     *)
(*   scores (text score, quality, performance, overall)  in 1/1000 points, *)
(*   itm_score in 1/100 (0..100 stands for 0.0..1.0),                      *)
(*   execution_time in whole seconds.                                      *)
(* Every product the code forms (x0.7, x0.3, x0.5, x0.6, x0.4) is exact in *)
(* these units, so no rounding is introduced by the model.                 *)
(*                                                                         *)
(* Text.  A response is a sequence of tokens; "." is the full stop, every  *)
(* other token is a word.  The string it stands for is the words joined by *)
(* blanks with each "." attached to the word before it.                    *)
(***************************************************************************)
EXTENDS Integers, Sequences, FiniteSets, TLC

VARIABLES
    \* ---- analyze_model_response applied to one response (SpecScore)
    response,       \* the ModelResponse under analysis
    itm_arg,        \* the itm_score argument
    metrics,        \* the ModelMetrics returned, NoValue before the call
    \* ---- compare_models_with_itm applied to one list (SpecAgg)
    responses,      \* the input list of ModelResponse
    itm_scores,     \* the input map model_name -> itm_score
    analyzed,       \* the ModelMetrics computed for each response, in order
    comparison,     \* the ComparisonMetrics returned / the exception raised
    \* ---- the compare-models endpoint (Spec)
    run             \* per request being served: the locals of compare_models

NoValue == [none |-> TRUE]

(***************************************************************************)
(* Bounds of the model.                                                    *)
(***************************************************************************)
MaxTime == 125          \* execution times range over 0..MaxTime seconds
MaxResponses == 3       \* longest list handed to the Aggregator
MaxModels == 2          \* longest model list of a compare request

(***************************************************************************)
(* Vocabulary of the sample texts, and, per word, the keywords of each     *)
(* category that occur in it as substrings (the code matches with `in`).   *)
(***************************************************************************)
Dot == "."

Rep(tok, n) == [i \in 1..n |-> tok]

color_keywords(w) == IF w = "red" THEN {"red"} ELSE {}

object_keywords(w) == IF w = "dog" THEN {"dog"} ELSE {}

people_keywords(w) == IF w = "man" THEN {"man"} ELSE {}

action_keywords(w) == IF w = "walking" THEN {"walking"} ELSE {}

text_keywords(w) == IF w = "text" THEN {"text"} ELSE {}

\* "sorry" holds "so" and "or", "dog" holds "do", "walking" holds "in",
\* "the" holds "the" and "he", "with" holds "with" and "it".
english_indicators(w) ==
    CASE w = "Sorry"   -> {"so", "or"}
      [] w = "dog"     -> {"do"}
      [] w = "walking" -> {"in"}
      [] w = "the"     -> {"the", "he"}
      [] w = "with"    -> {"with", "it"}
      [] OTHER         -> {}

\* multimodal_metrics.py object_keywords that occur in a word
mm_object_keywords(w) == IF w \in {"red", "dog", "man"} THEN {w} ELSE {}

\* the keywords of the list called kw that occur in the word w
KeywordsIn(kw, w) ==
    CASE kw = "color_keywords"     -> color_keywords(w)
      [] kw = "object_keywords"    -> object_keywords(w)
      [] kw = "people_keywords"    -> people_keywords(w)
      [] kw = "action_keywords"    -> action_keywords(w)
      [] kw = "text_keywords"      -> text_keywords(w)
      [] kw = "english_indicators" -> english_indicators(w)
      [] kw = "mm_object_keywords" -> mm_object_keywords(w)

Hits(kw, text) == UNION {KeywordsIn(kw, text[i]) : i \in DOMAIN text}

\* str.split("."): the segments between full stops, empty ones included.
RECURSIVE SplitFrom(_, _, _)
SplitFrom(text, i, cur) ==
    IF i > Len(text) THEN <<cur>>
    ELSE IF text[i] = Dot THEN <<cur>> \o SplitFrom(text, i + 1, <<>>)
    ELSE SplitFrom(text, i + 1, Append(cur, text[i]))

Split(text) == SplitFrom(text, 1, <<>>)

\* str.split(): the whitespace-separated words (a "." belongs to its word).
Words(text) == SelectSeq(text, LAMBDA t : t # Dot)

StartsWithSorry(text) == Len(text) > 0 /\ text[1] = "Sorry"

(***************************************************************************)
(* ModelMetricsAnalyzer.analyze_content_quality                            *)
(***************************************************************************)
analyze_content_quality(text) ==
    LET words == Words(text)
        sentences == Split(text)
    IN  [ response_length |-> Len(text),
          word_count |-> Len(words),
          sentence_count |-> Len(SelectSeq(sentences, LAMBDA s : s # <<>>)),
          mentions_colors |-> Hits("color_keywords", text) # {},
          mentions_objects |-> Hits("object_keywords", text) # {},
          mentions_people |-> Hits("people_keywords", text) # {},
          mentions_text |-> Hits("text_keywords", text) # {},
          mentions_actions |-> Hits("action_keywords", text) # {},
          uses_english |-> Cardinality(Hits("english_indicators", text)) > 3,
          has_detailed_description |-> Len(words) > 20,
          well_structured |-> Len(sentences) > 2 /\ ~StartsWithSorry(text),
          has_specific_details |->
              (Hits("color_keywords", text) \cup Hits("object_keywords", text)
                  \cup Hits("people_keywords", text)) # {} ]

Min(a, b) == IF a <= b THEN a ELSE b

B2N(b) == IF b THEN 1 ELSE 0

\* The text part of calculate_quality_score (the local `score`), in 1/1000.
TextScore(cm) ==
    LET wc == cm.word_count
        len_bonus == IF 20 <= wc /\ wc <= 200 THEN 2000
                     ELSE IF 10 <= wc /\ wc < 20 THEN 1000
                     ELSE IF wc > 200 THEN 1500
                     ELSE 0
        content_variety == B2N(cm.mentions_colors) + B2N(cm.mentions_objects)
                           + B2N(cm.mentions_people) + B2N(cm.mentions_text)
                           + B2N(cm.mentions_actions)
    IN  len_bonus
        + (IF cm.has_detailed_description THEN 2000 ELSE 0)
        + (IF cm.well_structured THEN 2000 ELSE 0)
        + (IF cm.uses_english THEN 1500 ELSE 0)
        + (IF cm.has_specific_details THEN 1500 ELSE 0)
        + content_variety * 500

\* A slip that blends the distance 1 - itm_score instead of the score.
FinalScoreItmInverted(cm, itm) ==
    (TextScore(cm) * 7 + ((100 - itm) * 100) * 3) \div 10

\* final_score before the cap: 0.7 * score + 0.3 * (itm_score * 10.0).
FinalScore(cm, itm) == (TextScore(cm) * 7 + (itm * 100) * 3) \div 10

\* A slip that returns final_score without the min(..., 10.0).
calculate_quality_score_uncapped(cm, itm) == FinalScore(cm, itm)

(***************************************************************************)
(* ModelMetricsAnalyzer.calculate_quality_score                            *)
(***************************************************************************)
calculate_quality_score(cm, itm) == Min(FinalScore(cm, itm), 10000)

\* A slip that gives no performance credit above 120 seconds.
calculate_performance_score_zero_tail(execution_time, success) ==
    IF ~success THEN 0
    ELSE IF execution_time <= 3 THEN 10000
    ELSE IF execution_time <= 5 THEN 9500
    ELSE IF execution_time <= 10 THEN 9000
    ELSE IF execution_time <= 15 THEN 8000
    ELSE IF execution_time <= 30 THEN 7000
    ELSE IF execution_time <= 60 THEN 5000
    ELSE IF execution_time <= 120 THEN 3000
    ELSE 0

\* A slip that compares with < where the code compares with <=.
calculate_performance_score_strict(execution_time, success) ==
    IF ~success THEN 0
    ELSE IF execution_time < 3 THEN 10000
    ELSE IF execution_time < 5 THEN 9500
    ELSE IF execution_time < 10 THEN 9000
    ELSE IF execution_time < 15 THEN 8000
    ELSE IF execution_time < 30 THEN 7000
    ELSE IF execution_time < 60 THEN 5000
    ELSE IF execution_time < 120 THEN 3000
    ELSE 1000

(***************************************************************************)
(* ModelMetricsAnalyzer.calculate_performance_score                        *)
(***************************************************************************)
calculate_performance_score(execution_time, success) ==
    IF ~success THEN 0
    ELSE IF execution_time <= 3 THEN 10000
    ELSE IF execution_time <= 5 THEN 9500
    ELSE IF execution_time <= 10 THEN 9000
    ELSE IF execution_time <= 15 THEN 8000
    ELSE IF execution_time <= 30 THEN 7000
    ELSE IF execution_time <= 60 THEN 5000
    ELSE IF execution_time <= 120 THEN 3000
    ELSE 1000

\* The ModelMetrics built on the failure path (lines 210-230).
FailedMetrics(r, itm) ==
    [ model_name |-> r.model_name, provider |-> r.provider,
      execution_time |-> r.execution_time, success_rate |-> 0,
      response_length |-> 0, word_count |-> 0, sentence_count |-> 0,
      has_detailed_description |-> FALSE,
      mentions_colors |-> FALSE, mentions_objects |-> FALSE,
      mentions_people |-> FALSE, mentions_text |-> FALSE,
      mentions_actions |-> FALSE,
      uses_english |-> FALSE, well_structured |-> FALSE,
      has_specific_details |-> FALSE,
      itm_score |-> itm, quality_score |-> 0, overall_score |-> 0 ]

\* The ModelMetrics built on the success path (lines 232-265).
AnalyzedMetrics(r, itm) ==
    LET cm == analyze_content_quality(r.response)
        quality_score == calculate_quality_score(cm, itm)
        performance_score ==
            calculate_performance_score(r.execution_time, r.success)
        overall_score ==
            IF r.execution_time < 10
                THEN (quality_score * 5 + performance_score * 5) \div 10
            ELSE IF r.execution_time > 60
                THEN (quality_score * 7 + performance_score * 3) \div 10
            ELSE (quality_score * 6 + performance_score * 4) \div 10
    IN  [ model_name |-> r.model_name, provider |-> r.provider,
          execution_time |-> r.execution_time,
          success_rate |-> IF r.success THEN 1 ELSE 0,
          response_length |-> cm.response_length,
          word_count |-> cm.word_count,
          sentence_count |-> cm.sentence_count,
          has_detailed_description |-> cm.has_detailed_description,
          mentions_colors |-> cm.mentions_colors,
          mentions_objects |-> cm.mentions_objects,
          mentions_people |-> cm.mentions_people,
          mentions_text |-> cm.mentions_text,
          mentions_actions |-> cm.mentions_actions,
          uses_english |-> cm.uses_english,
          well_structured |-> cm.well_structured,
          has_specific_details |-> cm.has_specific_details,
          itm_score |-> itm, quality_score |-> quality_score,
          overall_score |-> overall_score ]

\* A slip that drops the `if not response.success` early return.
analyze_model_response_no_guard(r, itm) == AnalyzedMetrics(r, itm)

(***************************************************************************)
(* ModelMetricsAnalyzer.analyze_model_response                             *)
(***************************************************************************)
analyze_model_response(r, itm) ==
    IF ~r.success THEN FailedMetrics(r, itm) ELSE AnalyzedMetrics(r, itm)


(***************************************************************************)
(* Python dict: keys in order of first insertion, a later assignment to an  *)
(* existing key replaces the value and keeps the key's place.               *)
(***************************************************************************)
EmptyDict == [keys |-> <<>>, val |-> <<>>]

InSeq(x, seq) == \E i \in DOMAIN seq : seq[i] = x

\* A slip that keeps the first value stored under a key (dict.setdefault).
DictSetKeepFirst(d, k, v) ==
    IF InSeq(k, d.keys) THEN d
    ELSE [ keys |-> Append(d.keys, k),
           val |-> [x \in (DOMAIN d.val) \cup {k} |->
                       IF x = k THEN v ELSE d.val[x]] ]

DictSet(d, k, v) ==
    [ keys |-> IF InSeq(k, d.keys) THEN d.keys ELSE Append(d.keys, k),
      val |-> [x \in (DOMAIN d.val) \cup {k} |-> IF x = k THEN v ELSE d.val[x]] ]

DictValues(d) == [i \in DOMAIN d.keys |-> d.val[d.keys[i]]]

\* dict.get(key, default) on a map given as a function
DictGet(f, k, default) == IF k \in DOMAIN f THEN f[k] ELSE default

\* min(seq, key=...) and max(seq, key=...): the first element that attains
\* the extreme; both are called on non-empty sequences only.
PyMin(seq, key) ==
    seq[CHOOSE i \in DOMAIN seq :
            /\ \A j \in DOMAIN seq : seq[i][key] <= seq[j][key]
            /\ \A j \in 1..(i - 1) : seq[j][key] > seq[i][key]]

PyMax(seq, key) ==
    seq[CHOOSE i \in DOMAIN seq :
            /\ \A j \in DOMAIN seq : seq[i][key] >= seq[j][key]
            /\ \A j \in 1..(i - 1) : seq[j][key] < seq[i][key]]

NA == "N/A"
NoWinner == "N/A - Ningun modelo tuvo exito"

\* the attribute each `key=lambda x: x.<attribute>` reads
KeyTime == "execution_time"
KeyWords == "word_count"
KeyQuality == "quality_score"
KeyOverall == "overall_score"

Raised(exc) == [raised |-> TRUE, error |-> exc]

\* the value `metrics` of each iteration of the loop of lines 348-351
LoopMetrics(resps, scores) ==
    [ i \in DOMAIN resps |->
        LET itm_score == DictGet(scores, resps[i].model_name, 0)
        IN  analyze_model_response(resps[i], itm_score) ]

\* model_metrics after the first n iterations of that loop
RECURSIVE StoreAll(_, _, _)
StoreAll(resps, ms, n) ==
    IF n = 0 THEN EmptyDict
    ELSE DictSet(StoreAll(resps, ms, n - 1), resps[n].model_name, ms[n])

AnalyzeAll(resps, scores, n) == StoreAll(resps, LoopMetrics(resps, scores), n)

\* the report of lines 361-371 (no model succeeded)
NoSuccessReport(resps, model_metrics) ==
    [ raised |-> FALSE,
      total_models |-> Len(resps),
      fastest_model |-> PyMin(DictValues(model_metrics), KeyTime).model_name,
      slowest_model |-> PyMax(DictValues(model_metrics), KeyTime).model_name,
      most_detailed_model |-> NA,
      highest_quality_model |-> NA,
      winner |-> NoWinner,
      metrics_by_model |-> model_metrics ]

\* the report of lines 373-395
WinnersReport(resps, model_metrics, successful_metrics) ==
    [ raised |-> FALSE,
      total_models |-> Len(resps),
      fastest_model |-> PyMin(successful_metrics, KeyTime).model_name,
      slowest_model |-> PyMax(DictValues(model_metrics), KeyTime).model_name,
      most_detailed_model |-> PyMax(successful_metrics, KeyWords).model_name,
      highest_quality_model |->
          PyMax(successful_metrics, KeyQuality).model_name,
      winner |-> PyMax(successful_metrics, KeyOverall).model_name,
      metrics_by_model |-> model_metrics ]

\* A slip that leaves out the `if not successful_metrics` branch: min() of
\* an empty sequence raises ValueError.
compare_models_with_itm_no_branch(resps, scores) ==
    IF resps = <<>> THEN Raised("ValueError")
    ELSE LET model_metrics == AnalyzeAll(resps, scores, Len(resps))
             successful_metrics ==
                 SelectSeq(DictValues(model_metrics),
                           LAMBDA m : m.success_rate > 0)
         IN  IF successful_metrics = <<>> THEN Raised("ValueError")
             ELSE WinnersReport(resps, model_metrics, successful_metrics)

(***************************************************************************)
(* ModelMetricsAnalyzer.compare_models_with_itm                            *)
(***************************************************************************)
compare_models_with_itm(resps, scores) ==
    IF resps = <<>> THEN Raised("ValueError")
    ELSE LET model_metrics == AnalyzeAll(resps, scores, Len(resps))
             successful_metrics ==
                 SelectSeq(DictValues(model_metrics),
                           LAMBDA m : m.success_rate > 0)
         IN  IF successful_metrics = <<>>
                 THEN NoSuccessReport(resps, model_metrics)
             ELSE WinnersReport(resps, model_metrics, successful_metrics)

(***************************************************************************)
(* models.py ModelConfig, model_config.py, validation.py                   *)
(***************************************************************************)
None == "None"

ModelConfig(provider, model_name) ==
    [provider |-> provider, model_name |-> model_name]

\* get_available_models()["ollama"]["capabilities"]
OllamaCapabilities ==
    [ m \in {"gemma3:4b", "qwen2.5vl:7b"} |-> {"text", "vision"} ]

get_model_capabilities(provider, model_name) ==
    IF provider = "gemini" THEN {"text", "vision"}
    ELSE IF provider = "ollama" /\ model_name # None
        THEN DictGet(OllamaCapabilities, model_name, {"text"})
    ELSE {"text"}

has_vision_capability(provider, model_name) ==
    "vision" \in get_model_capabilities(provider, model_name)

valid_providers == {"gemini", "ollama"}

\* A slip that checks the provider of the first entry only.
validate_models_for_comparison_first_only(model_configs) ==
    IF Len(model_configs) < 2 THEN "HTTP400"
    ELSE IF model_configs[1].provider \notin valid_providers THEN "HTTP400"
    ELSE "ok"

\* validate_models_for_comparison: "ok", or the HTTPException it raises
validate_models_for_comparison(model_configs) ==
    IF Len(model_configs) < 2 THEN "HTTP400"
    ELSE IF \E i \in DOMAIN model_configs :
                model_configs[i].provider \notin valid_providers
        THEN "HTTP400"
    ELSE "ok"

(***************************************************************************)
(* model_executor.py                                                       *)
(***************************************************************************)
get_model_display_name(model_config) ==
    IF model_config.provider = "gemini" THEN "gemini-1.5-flash"
    ELSE IF model_config.model_name # None THEN model_config.model_name
    ELSE "gemma3:4b"

\* Whether the call passes the image to the agent (lines 90-111).
PassesImage(model_config) ==
    \/ model_config.provider = "gemini"
    \/ has_vision_capability(model_config.provider, model_config.model_name)

\* What the environment does to one execute_model call:
\*   agent, prompt, run : "ok" or "raises"  (get_agent, get_model_prompt and
\*                        the image decoding, agent.run)
\*   output             : the text agent.run returns
\*   elapsed            : time.time() - start_time when the call ends
ReachesRun(env) == env.agent = "ok" /\ env.prompt = "ok"

Fails(env) == ~ReachesRun(env) \/ env.run = "raises"

Returns(value) == [raised |-> FALSE, value |-> value]

FailureResponse(model_config, env) ==
    [ model_name |-> get_model_display_name(model_config),
      provider |-> model_config.provider, response |-> <<>>,
      execution_time |-> env.elapsed, success |-> FALSE, error |-> "error" ]

SuccessResponse(model_config, env) ==
    [ model_name |-> get_model_display_name(model_config),
      provider |-> model_config.provider, response |-> env.output,
      execution_time |-> env.elapsed, success |-> TRUE, error |-> None ]

\* A slip that obtains the agent before the try block.
execute_model_agent_outside_try(model_config, env) ==
    IF env.agent = "raises" THEN Raised("ValueError")
    ELSE IF Fails(env) THEN Returns(FailureResponse(model_config, env))
    ELSE Returns(SuccessResponse(model_config, env))

\* execute_model: everything after start_time runs inside try/except
\* Exception, and both paths return a ModelResponse.
execute_model(model_config, env) ==
    IF Fails(env) THEN Returns(FailureResponse(model_config, env))
    ELSE Returns(SuccessResponse(model_config, env))

(***************************************************************************)
(* The aggregation and the report assembly of main.py.                     *)
(***************************************************************************)
\* text_metrics_analyzer.compare_models(results), called at line 229, is
\* not among the source files; it is the Aggregator of the design document
\* (section 4.4) applied without ITM scores.
compare_models(results) == compare_models_with_itm(results, <<>>)

\* get_recommendation: metrics_by_model[winner] raises KeyError when winner
\* is no key; otherwise the tier by the winner's overall_score.
get_recommendation(cmp) ==
    IF ~InSeq(cmp.winner, cmp.metrics_by_model.keys) THEN Raised("KeyError")
    ELSE LET overall_score == cmp.metrics_by_model.val[cmp.winner].overall_score
         IN  Returns(IF overall_score < 3000 THEN "unsatisfactory"
                     ELSE IF overall_score < 6000 THEN "moderate"
                     ELSE IF overall_score < 8000 THEN "good"
                     ELSE "excellent")

\* compute_object_metrics: every mentioned object counts as detected, so
\* precision = n / (n + 1e-6) and hallucination_rate = 0; in 1/1000000.
compute_object_metrics(caption) ==
    IF Hits("mm_object_keywords", caption) = {}
        THEN [object_precision |-> 1000000, hallucination_rate |-> 0]
    ELSE [object_precision |-> 999999, hallucination_rate |-> 0]

\* compute_itm_score, in 1/100.  blip tells whether __init__ could load the
\* model and its processor; o is what the scoring does with the model
\* available: it raises (the image cannot be opened, the forward pass
\* fails), it yields a match probability, or its output has none of the
\* fields the code looks for (lines 213-215).
compute_itm_score(blip, o) ==
    IF blip # "loaded" THEN Returns(50)
    ELSE IF o.kind = "raises" THEN Returns(0)
    ELSE IF o.kind = "no_score" THEN Returns(50)
    ELSE Returns(o.prob)

\* the entry of multimodal_results on the two except paths (lines 269-289)
DefaultMultimodal ==
    [itm_score |-> 0, object_precision |-> 0, hallucination_rate |-> 1000000]

\* the entry built from analyze_multimodal (lines 257-264); itm in 1/100
ScoredMultimodal(itm, caption) ==
    [ itm_score |-> itm,
      object_precision |-> compute_object_metrics(caption).object_precision,
      hallucination_rate |->
          compute_object_metrics(caption).hallucination_rate ]

\* mm_data.get(...) with the defaults of lines 304-306 and 326-329
MmGet(multimodal_results, model_name) ==
    DictGet(multimodal_results, model_name,
            [itm_score |-> 0, object_precision |-> 0,
             hallucination_rate |-> 1000000])

\* One ModelMetricsSummary of lines 299-332.  multimodal_score is in
\* 1/1000000 points, the combined overall_score in 1/10000000 points.
SummaryEntry(model_metrics, multimodal_results) ==
    LET mm_data == MmGet(multimodal_results, model_metrics.model_name)
        multimodal_score ==
            (mm_data.itm_score * 10000) * 4 + mm_data.object_precision * 3
                + (1000000 - mm_data.hallucination_rate) * 3
        combined_score ==
            (model_metrics.overall_score * 1000) * 7 + multimodal_score * 3
    IN  [ model_name |-> model_metrics.model_name,
          provider |-> model_metrics.provider,
          execution_time |-> model_metrics.execution_time,
          success_rate |-> model_metrics.success_rate,
          quality_score |-> model_metrics.quality_score,
          word_count |-> model_metrics.word_count,
          overall_score |-> combined_score,
          itm_score |-> mm_data.itm_score,
          multimodal_score |-> multimodal_score ]

\* The ComparisonSummary of lines 297-351.  The loop reads the language
\* flag as uses_spanish, its name in the revision of ModelMetrics that
\* compare_models returns; it plays no part in any score and is left out.
BuildSummary(results, text_comparison, multimodal_results) ==
    LET metrics_summary ==
            [ i \in DOMAIN text_comparison.metrics_by_model.keys |->
                SummaryEntry(DictValues(text_comparison.metrics_by_model)[i],
                             multimodal_results) ]
        winner == PyMax(metrics_summary, KeyOverall)
    IN  [ total_models |-> Len(results),
          fastest_model |-> text_comparison.fastest_model,
          most_detailed_model |-> text_comparison.most_detailed_model,
          highest_quality_model |-> winner.model_name,
          winner |-> winner.model_name,
          recommendation |-> "excellent",
          metrics_summary |-> metrics_summary ]

(***************************************************************************)
(* Sample inputs.                                                          *)
(***************************************************************************)
\* "The red dog with the man walking. Text. zzz ... zzz."  24 words, four
\* segments, every mention category, six language indicators.
TextRich ==
    <<"the", "red", "dog", "with", "the", "man", "walking", Dot, "text", Dot>>
        \o Rep("zzz", 15) \o <<Dot>>

\* Two sentences, each ending in a full stop.
TextTwoSentences == <<"the", "dog", Dot, "the", "man", Dot>>

TextSorry == <<"Sorry", Dot, "zzz", Dot, "zzz", Dot>>

Texts ==
    { <<>>, <<"the", "red", "dog">>, TextTwoSentences, TextSorry,
      Rep("zzz", 12), Rep("zzz", 20), TextRich, Rep("zzz", 201) }

\* itm_score values, in 1/100: 0.0, 0.1, ..., 1.0
ItmValues == {10 * k : k \in 0..10}

ModelNames == {"gemini-1.5-flash", "gemma3:4b"}

ProviderOf(name) == IF name = "gemini-1.5-flash" THEN "gemini" ELSE "ollama"

\* models.py ModelResponse
ModelResponse(name, text, time, ok) ==
    [ model_name |-> name, provider |-> ProviderOf(name), response |-> text,
      execution_time |-> time, success |-> ok,
      error |-> IF ok THEN None ELSE "error" ]

scoreVars == <<response, itm_arg, metrics>>
aggVars == <<responses, itm_scores, analyzed, comparison>>

Runs == {"r1", "r2"}

\* the locals of a compare_models call that has not been made
NoRun ==
    [ pc |-> "idle", image_type |-> "", models |-> NoValue,
      models_config |-> <<>>, temp |-> "none", i |-> 0, results |-> <<>>,
      inflight |-> {}, calls |-> <<>>, text_comparison |-> NoValue,
      analyzer |-> "none", k |-> 0, itm_calls |-> <<>>,
      multimodal_results |-> <<>>,
      summary |-> NoValue, outcome |-> "none", log |-> <<>> ]

RunIdle == run = [r \in Runs |-> NoRun]

ScoreIdle == response = NoValue /\ itm_arg = 0 /\ metrics = NoValue
AggIdle ==
    responses = <<>> /\ itm_scores = <<>> /\ analyzed = <<>> /\ comparison = NoValue

(***************************************************************************)
(* SpecScore: analyze_model_response applied to every sample response.     *)
(***************************************************************************)
InitScore ==
    /\ response \in { ModelResponse("gemma3:4b", t, e, ok) :
                        t \in Texts, e \in 0..MaxTime, ok \in BOOLEAN }
    /\ itm_arg \in ItmValues
    /\ metrics = NoValue
    /\ AggIdle
    /\ RunIdle

Analyze ==
    /\ metrics = NoValue
    /\ metrics' = analyze_model_response(response, itm_arg)
    /\ UNCHANGED <<response, itm_arg, aggVars, run>>

NextScore == Analyze

vars == <<scoreVars, aggVars, run>>

SpecScore == InitScore /\ [][NextScore]_vars

\* C1: for every model result (any content signals, any itm_score in [0,1],
\* any execution_time >= 0, success true or false) the quality_score and the
\* overall_score returned by analyze_model_response lie in [0,10].
C1_ScoresInRange ==
    metrics # NoValue =>
        /\ 0 <= metrics.quality_score /\ metrics.quality_score <= 10000
        /\ 0 <= metrics.overall_score /\ metrics.overall_score <= 10000

\* The cap of calculate_quality_score is what keeps the score at 10: the
\* blend of the text score 11.5 with itm 1.0 is 11.05.
C1_Witness ==
    /\ metrics # NoValue
    /\ response.success
    /\ FinalScore(analyze_content_quality(response.response), itm_arg) > 10000
    /\ metrics.quality_score = 10000
    /\ metrics.overall_score = 10000

\* the response was analysed and it was a successful one
AnalysedSuccess == metrics # NoValue /\ response.success

\* C14: with the content signals held fixed, quality_score is monotonically
\* non-decreasing in itm_score over [0,1]: for all a <= b,
\* calculate_quality_score(signals, a) <= calculate_quality_score(signals, b).
C14_MonotoneInItm ==
    AnalysedSuccess =>
        LET signals == analyze_content_quality(response.response) IN
        \A a \in ItmValues :
            /\ a <= itm_arg =>
                 calculate_quality_score(signals, a) <= metrics.quality_score
            /\ a >= itm_arg =>
                 calculate_quality_score(signals, a) >= metrics.quality_score

\* a text whose quality rises strictly from itm 0.0 to itm 1.0
C14_Witness ==
    /\ AnalysedSuccess
    /\ itm_arg = 100
    /\ calculate_quality_score(analyze_content_quality(response.response), 0)
           < metrics.quality_score
    /\ metrics.quality_score < 10000

\* the text score as the sum of the bonuses, from the fields of the
\* returned ModelMetrics, in 1/1000
BonusSum(m) ==
    (IF 20 <= m.word_count /\ m.word_count <= 200 THEN 2000
     ELSE IF 10 <= m.word_count /\ m.word_count < 20 THEN 1000
     ELSE IF m.word_count > 200 THEN 1500 ELSE 0)
    + (IF m.has_detailed_description THEN 2000 ELSE 0)
    + (IF m.well_structured THEN 2000 ELSE 0)
    + (IF m.uses_english THEN 1500 ELSE 0)
    + (IF m.has_specific_details THEN 1500 ELSE 0)
    + 500 * Cardinality({f \in {"mentions_colors", "mentions_objects",
                                 "mentions_people", "mentions_text",
                                 "mentions_actions"} : m[f]})

\* C19: for a successful result quality_score =
\* min(10, 0.7 * text_score + 0.3 * itm_score * 10), where text_score is the
\* sum of the length bonus, +2 detailed, +2 well structured, +1.5 language,
\* +1.5 specific details and 0.5 per true mention category, and text_score
\* is itself capped at 10 before the blend.
C19_QualityFormula ==
    AnalysedSuccess =>
        metrics.quality_score =
            Min(10000, (Min(BonusSum(metrics), 10000) * 7
                        + (metrics.itm_score * 100) * 3) \div 10)

\* what the statement gives for the performance score and for the weight
\* of the quality score (in tenths)
PerformanceTable(t) ==
    IF t <= 3 THEN 10000 ELSE IF t <= 5 THEN 9500 ELSE IF t <= 10 THEN 9000
    ELSE IF t <= 15 THEN 8000 ELSE IF t <= 30 THEN 7000
    ELSE IF t <= 60 THEN 5000 ELSE IF t <= 120 THEN 3000 ELSE 1000

QualityWeight(t) == IF t < 10 THEN 5 ELSE IF t > 60 THEN 7 ELSE 6

\* C20: for a successful result overall_score = w * quality_score +
\* (1 - w) * performance_score, where performance_score is 10 / 9.5 / 9.0 /
\* 8.0 / 7.0 / 5.0 / 3.0 / 1.0 for execution_time <= 3 / 5 / 10 / 15 / 30 /
\* 60 / 120 / above, and w is 0.5 below 10 s, 0.7 above 60 s and 0.6
\* otherwise, so that exactly 10 s and exactly 60 s both use 60/40.
C20_OverallFormula ==
    AnalysedSuccess =>
        LET t == response.execution_time
            w == QualityWeight(t)
        IN  metrics.overall_score =
                (w * metrics.quality_score + (10 - w) * PerformanceTable(t))
                    \div 10

\* a response that took exactly 60 s: 60/40 with performance 5.0
C20_Witness ==
    /\ AnalysedSuccess
    /\ response.execution_time = 60
    /\ metrics.quality_score > 0
    /\ metrics.overall_score = (6 * metrics.quality_score + 4 * 5000) \div 10


(***************************************************************************)
(* SpecAgg: compare_models_with_itm applied to every list of at most       *)
(* MaxResponses sample responses and every itm map over their names.  A    *)
(* failed response may carry any text: the Aggregator is a public method.  *)
(***************************************************************************)
AggTimes == {2, 7, 70}

AggTexts == { <<"the", "red", "dog">>, TextRich }

AggItm == {30, 100}

AggResponses ==
    { ModelResponse(n, t, e, ok) :
        n \in ModelNames, t \in AggTexts, e \in AggTimes, ok \in BOOLEAN }

SeqsUpTo(S, n) == UNION { [1..k -> S] : k \in 0..n }

ItmMaps == UNION { [D -> AggItm] : D \in SUBSET ModelNames }

InitAgg ==
    /\ responses \in SeqsUpTo(AggResponses, MaxResponses)
    /\ itm_scores \in ItmMaps
    /\ analyzed = <<>>
    /\ comparison = NoValue
    /\ ScoreIdle
    /\ RunIdle

Compare ==
    /\ comparison = NoValue
    /\ analyzed' = LoopMetrics(responses, itm_scores)
    /\ comparison' = compare_models_with_itm(responses, itm_scores)
    /\ UNCHANGED <<responses, itm_scores, scoreVars, run>>

NextAgg == Compare

SpecAgg == InitAgg /\ [][NextAgg]_vars

Returned == comparison # NoValue /\ ~comparison.raised

Successes(resps) == {i \in DOMAIN resps : resps[i].success}

\* C2: for every result with success=false, analyze_model_response yields
\* quality_score=0, overall_score=0, all counts 0 and all boolean content
\* signals false, whatever response text the result carries, while its
\* itm_score is the value of the input map (0.0 when the map has no entry).
C2_FailureZeroed ==
    comparison # NoValue =>
        \A i \in DOMAIN analyzed :
            ~responses[i].success =>
                LET m == analyzed[i] IN
                /\ m.quality_score = 0 /\ m.overall_score = 0
                /\ m.response_length = 0 /\ m.word_count = 0
                /\ m.sentence_count = 0
                /\ ~m.has_detailed_description /\ ~m.mentions_colors
                /\ ~m.mentions_objects /\ ~m.mentions_people
                /\ ~m.mentions_text /\ ~m.mentions_actions
                /\ ~m.uses_english /\ ~m.well_structured
                /\ ~m.has_specific_details
                /\ m.itm_score =
                     (IF responses[i].model_name \in DOMAIN itm_scores
                         THEN itm_scores[responses[i].model_name] ELSE 0)

\* A failed result that carries a stale, rich text and has an entry in the
\* map, next to a failed result without an entry.
C2_Witness ==
    /\ comparison # NoValue
    /\ \E i, j \in DOMAIN analyzed :
        /\ ~responses[i].success /\ responses[i].response = TextRich
        /\ responses[i].model_name \in DOMAIN itm_scores
        /\ analyzed[i].itm_score = 100
        /\ ~responses[j].success
        /\ responses[j].model_name \notin DOMAIN itm_scores
        /\ analyzed[j].itm_score = 0

\* C3: given a non-empty list in which no result succeeded, the Aggregator
\* raises no exception and returns winner = the "no successful model"
\* sentinel, most_detailed_model = highest_quality_model = "not applicable".
C3_NoSuccessSentinel ==
    (comparison # NoValue /\ responses # <<>> /\ Successes(responses) = {}) =>
        /\ ~comparison.raised
        /\ comparison.winner = NoWinner
        /\ comparison.most_detailed_model = NA
        /\ comparison.highest_quality_model = NA

C3_Witness ==
    /\ Returned
    /\ Len(responses) >= 2
    /\ Successes(responses) = {}
    /\ comparison.winner = NoWinner


\* The first index of I at which val is least / greatest.
FirstArgMin(I, val) ==
    CHOOSE i \in I : /\ \A j \in I : val[i] <= val[j]
                     /\ \A j \in I : j < i => val[j] > val[i]

FirstArgMax(I, val) ==
    CHOOSE i \in I : /\ \A j \in I : val[i] >= val[j]
                     /\ \A j \in I : j < i => val[j] < val[i]

TimeOf == [i \in DOMAIN responses |-> responses[i].execution_time]
WordsOf == [i \in DOMAIN analyzed |-> analyzed[i].word_count]
QualityOf == [i \in DOMAIN analyzed |-> analyzed[i].quality_score]
OverallOf == [i \in DOMAIN analyzed |-> analyzed[i].overall_score]

NameAt(i) == responses[i].model_name

DistinctNames(resps) ==
    \A i, j \in DOMAIN resps : i # j => resps[i].model_name # resps[j].model_name

DistinctTimes(resps) ==
    \A i, j \in DOMAIN resps :
        i # j => resps[i].execution_time # resps[j].execution_time

\* C4: every category winner (fastest, slowest, most detailed, highest
\* quality, winner) is the first result of the input list, among those that
\* attain the extreme value, for every input list, lists that repeat a
\* model_name included.
C4_FirstOccurrenceWins ==
    Returned =>
        LET all == DOMAIN responses
            ok == Successes(responses)
        IN  /\ comparison.slowest_model = NameAt(FirstArgMax(all, TimeOf))
            /\ ok = {} =>
                 comparison.fastest_model = NameAt(FirstArgMin(all, TimeOf))
            /\ ok # {} =>
                 comparison.fastest_model = NameAt(FirstArgMin(ok, TimeOf))
            /\ comparison.winner # NoWinner =>
                 /\ comparison.most_detailed_model =
                        NameAt(FirstArgMax(ok, WordsOf))
                 /\ comparison.highest_quality_model =
                        NameAt(FirstArgMax(ok, QualityOf))
                 /\ comparison.winner = NameAt(FirstArgMax(ok, OverallOf))

\* C5: for a list of N >= 2 results with pairwise distinct execution times
\* and at least one success, fastest_model is the successful result with the
\* least execution_time and slowest_model the result with the greatest
\* execution_time over all results.
C5_FastestSlowest ==
    ( /\ Returned
      /\ Len(responses) >= 2
      /\ DistinctTimes(responses)
      /\ Successes(responses) # {} ) =>
        /\ comparison.fastest_model =
               NameAt(FirstArgMin(Successes(responses), TimeOf))
        /\ comparison.slowest_model =
               NameAt(FirstArgMax(DOMAIN responses, TimeOf))


(***************************************************************************)
(* Spec: one POST /compare-models request, main.py compare_models.         *)
(***************************************************************************)
Configs ==
    { ModelConfig("gemini", None), ModelConfig("ollama", None),
      ModelConfig("ollama", "qwen2.5vl:7b"), ModelConfig("ollama", "llama3:8b"),
      ModelConfig("openai", None) }

\* the `models` form field: JSON that parses to a list of configurations,
\* or text json.loads rejects
\* a request that asks for the default local model twice, after gemini
RepeatedLocal ==
    << ModelConfig("gemini", None), ModelConfig("ollama", None),
       ModelConfig("ollama", None) >>

ModelsInputs ==
    { [json_ok |-> TRUE, configs |-> c] :
        c \in SeqsUpTo(Configs, MaxModels) \cup {RepeatedLocal} }
        \cup { [json_ok |-> FALSE, configs |-> <<>>] }

ImageTypes == {"image/jpeg", "text/plain"}

ExecTimes == {2, 70}

RunTexts == { <<"the", "red", "dog">>, TextRich }

\* what agent.run does: returns a text or raises, after some seconds
RunOutcomes ==
    { [run |-> "ok", output |-> t, elapsed |-> e] :
        t \in RunTexts, e \in ExecTimes }
    \cup { [run |-> "raises", output |-> <<>>, elapsed |-> e] : e \in ExecTimes }

\* what the scoring model does in one compute_itm_score call: it yields a
\* match probability (1/100), an output without a score field, or raises
ItmOutcomes ==
    { [kind |-> "prob", prob |-> 100], [kind |-> "no_score", prob |-> 0],
      [kind |-> "raises", prob |-> 0] }

\* the model was not loaded: compute_itm_score returns before using it
NotScored == [kind |-> "unused", prob |-> 0]

NewRun(image_type, models) ==
    [NoRun EXCEPT !.pc = "request", !.image_type = image_type,
                  !.models = models]

Event(e, i) == [e |-> e, i |-> i]

\* `except HTTPException: raise` (line 360): the error goes out as it is
RaiseHTTP(rr, code) == [rr EXCEPT !.pc = "done", !.outcome = code]

\* A slip that leaves the cleanup out of the `except Exception` handler.
RaiseInternalNoCleanup(rr) == [rr EXCEPT !.pc = "done", !.outcome = "HTTP500"]

\* `except Exception` (lines 362-369): the temporary file is removed when
\* temp_image_path is bound, then HTTP 500 is raised
RaiseInternal(rr) ==
    [rr EXCEPT !.pc = "done", !.outcome = "HTTP500",
               !.temp = IF rr.temp = "exists" THEN "removed" ELSE rr.temp]

Set(r, rr) == run' = [run EXCEPT ![r] = rr] /\ UNCHANGED <<scoreVars, aggVars>>

\* lines 65-71: validate_image_file
ValidateImage(r) ==
    /\ run[r].pc = "request"
    /\ Set(r, IF run[r].image_type = "image/jpeg"
                 THEN [run[r] EXCEPT !.pc = "parse"]
              ELSE RaiseHTTP(run[r], "HTTP400"))

\* lines 73-79: parse_models_config
ParseModels(r) ==
    /\ run[r].pc = "parse"
    /\ Set(r, IF run[r].models.json_ok
                 THEN [run[r] EXCEPT !.pc = "validate",
                                     !.models_config = run[r].models.configs]
              ELSE RaiseHTTP(run[r], "HTTP400"))

\* lines 81-86: validate_models_for_comparison
ValidateModels(r) ==
    /\ run[r].pc = "validate"
    /\ Set(r, IF validate_models_for_comparison(run[r].models_config) = "ok"
                 THEN [run[r] EXCEPT !.pc = "read_image"]
              ELSE RaiseHTTP(run[r], "HTTP400"))

\* lines 88-108: the image is read and decoded (process_image raises
\* HTTP 400 on bytes PIL cannot open), the temporary file is written
ReadImage(r) ==
    /\ run[r].pc = "read_image"
    /\ \E decodable \in BOOLEAN :
        Set(r, IF ~decodable THEN RaiseHTTP(run[r], "HTTP400")
               ELSE IF run[r].models_config = <<>>
                   THEN RaiseHTTP([run[r] EXCEPT !.temp = "exists"], "HTTP400")
               ELSE [run[r] EXCEPT !.temp = "exists", !.pc = "loop", !.i = 1])

\* any(result.provider == "ollama" and result.success for result in results)
OllamaSucceeded(results) ==
    \E j \in DOMAIN results :
        results[j].provider = "ollama" /\ results[j].success

\* lines 181-197: the head of one iteration, up to the await of sleep(3)
LoopHead(r) ==
    /\ run[r].pc = "loop"
    /\ LET rr == run[r] IN
       Set(r, IF rr.i > Len(rr.models_config)
                  THEN [rr EXCEPT !.pc = "aggregate"]
              ELSE IF rr.models_config[rr.i].provider = "ollama"
                      /\ OllamaSucceeded(rr.results)
                  THEN [rr EXCEPT !.pc = "cooldown",
                                  !.log = Append(@, Event("evict", rr.i))]
              ELSE [rr EXCEPT !.pc = "exec"])

\* lines 195-197: asyncio.sleep(3) is over
Cooldown(r) ==
    /\ run[r].pc = "cooldown"
    /\ Set(r, [run[r] EXCEPT !.pc = "exec",
                             !.log = Append(@, Event("cooldown", run[r].i))])

\* A slip that keeps the results of the successful executions only.
CollectSuccessesOnly(rr, env) ==
    LET ret == execute_model(rr.models_config[rr.i], env)
    IN  [rr EXCEPT !.results =
                       IF ~ret.raised /\ ret.value.success
                          THEN Append(@, ret.value) ELSE @,
                   !.calls = Append(@, [i |-> rr.i, env |-> env,
                                        image |-> ReachesRun(env)
                                            /\ PassesImage(rr.models_config[rr.i]),
                                        raised |-> ret.raised]),
                   !.pc = "pause"]

\* lines 199-215: what the loop does with the outcome of execute_model
Collect(rr, env) ==
    LET model_config == rr.models_config[rr.i]
        ret == execute_model(model_config, env)
        error_result ==
            [ model_name |-> IF model_config.model_name # None
                                THEN model_config.model_name
                             ELSE IF model_config.provider = "gemini"
                                THEN "gemini-unknown"
                             ELSE "ollama-unknown",
              provider |-> model_config.provider, response |-> <<>>,
              execution_time |-> 0, success |-> FALSE, error |-> "error" ]
    IN  [rr EXCEPT !.results =
                       Append(@, IF ret.raised THEN error_result ELSE ret.value),
                   !.calls = Append(@, [i |-> rr.i, env |-> env,
                                        image |-> ReachesRun(env)
                                            /\ PassesImage(model_config),
                                        raised |-> ret.raised]),
                   !.pc = "pause"]

\* A slip that starts the call without awaiting it (a task that is never
\* awaited): the loop goes on while the call is in flight.
StartWithoutAwait(rr) ==
    [rr EXCEPT !.pc = "pause", !.inflight = @ \cup {rr.i},
               !.log = Append(@, Event("run_start", rr.i))]

\* line 200 and execute_model line 108: `await`, the loop is suspended
\* until agent.run has returned or raised
AwaitRun(rr) ==
    [rr EXCEPT !.pc = "running", !.inflight = @ \cup {rr.i},
               !.log = Append(@, Event("run_start", rr.i))]

\* line 200, execute_model lines 77-108: the call starts; get_agent or the
\* building of the prompt may raise, else agent.run is awaited
ExecBegin(r) ==
    /\ run[r].pc = "exec"
    /\ LET rr == run[r] IN
       \E agent \in {"ok", "raises"}, prompt \in {"ok", "raises"} :
          LET env == [agent |-> agent, prompt |-> prompt, run |-> "none",
                      output |-> <<>>, elapsed |-> 0]
          IN  /\ agent = "raises" => prompt = "ok"
              /\ Set(r, IF ReachesRun(env) THEN AwaitRun(rr)
                        ELSE Collect(rr, env))

\* execute_model lines 108-141 and lines 201-215: agent.run returns or
\* raises, the result is appended
ExecComplete(r) ==
    /\ run[r].pc = "running"
    /\ LET rr == run[r] IN
       \E o \in RunOutcomes :
          LET env == [agent |-> "ok", prompt |-> "ok", run |-> o.run,
                      output |-> o.output, elapsed |-> o.elapsed]
              done == [rr EXCEPT !.inflight = @ \ {rr.i},
                                 !.log = Append(@, Event("run_end", rr.i))]
          IN  Set(r, Collect(done, env))

\* line 218: asyncio.sleep(0.5) is over, the loop goes on
Pause(r) ==
    /\ run[r].pc = "pause"
    /\ Set(r, [run[r] EXCEPT !.pc = "loop", !.i = @ + 1])


\* lines 220-230: the text comparison and its recommendation
Aggregate(r) ==
    /\ run[r].pc = "aggregate"
    /\ LET rr == run[r]
           text_comparison == compare_models(rr.results)
       IN  Set(r, IF rr.results = <<>> THEN RaiseHTTP(rr, "HTTP500")
                  ELSE IF text_comparison.raised THEN RaiseInternal(rr)
                  ELSE IF get_recommendation(text_comparison).raised
                      THEN RaiseInternal(
                               [rr EXCEPT !.text_comparison = text_comparison,
                                          !.log = Append(@, Event("aggregate", 0))])
                  ELSE [rr EXCEPT !.text_comparison = text_comparison,
                                  !.log = Append(@, Event("aggregate", 0)),
                                  !.pc = "itm_init"])

\* the names of the successful results, each mapped to the default entry
\* (lines 280-289)
DefaultsForSuccesses(results) ==
    [ n \in {results[j].model_name : j \in Successes(results)} |->
        DefaultMultimodal ]

\* lines 238-242 and 277-289: the analyzer is constructed; its __init__
\* keeps a failed model load as blip_model = None, any other error of the
\* import or the construction reaches the outer except
ItmInit(r) ==
    /\ run[r].pc = "itm_init"
    /\ \E o \in {"loaded", "unavailable", "raises"} :
        Set(r, IF o = "raises"
                  THEN [run[r] EXCEPT !.pc = "unlink", !.analyzer = "raised",
                            !.multimodal_results =
                                DefaultsForSuccesses(run[r].results)]
               ELSE [run[r] EXCEPT !.pc = "itm", !.analyzer = o, !.k = 1])

\* lines 244-276: one iteration of the scoring loop, result k; the call
\* of analyze_multimodal is synchronous, the iteration is one step
ItmScore(r) ==
    /\ run[r].pc = "itm"
    /\ LET rr == run[r] IN
       IF rr.k > Len(rr.results) THEN Set(r, [rr EXCEPT !.pc = "unlink"])
       ELSE IF ~rr.results[rr.k].success THEN Set(r, [rr EXCEPT !.k = @ + 1])
       ELSE \E o \in (IF rr.analyzer = "loaded" THEN ItmOutcomes
                      ELSE {NotScored}) :
               LET ret == compute_itm_score(rr.analyzer, o)
                   entry == IF ret.raised THEN DefaultMultimodal
                            ELSE ScoredMultimodal(ret.value,
                                                  rr.results[rr.k].response)
               IN  Set(r, [rr EXCEPT
                   !.k = @ + 1,
                   !.log = Append(@, Event("itm", rr.k)),
                   !.itm_calls = Append(@, [k |-> rr.k, blip |-> rr.analyzer,
                                            o |-> o, ret |-> ret]),
                   !.multimodal_results =
                       [ n \in (DOMAIN @) \cup {rr.results[rr.k].model_name} |->
                           IF n = rr.results[rr.k].model_name THEN entry
                           ELSE @[n] ]])

\* lines 291-295: the temporary file is removed
Unlink(r) ==
    /\ run[r].pc = "unlink"
    /\ Set(r, [run[r] EXCEPT !.pc = "summary", !.temp = "removed"])

\* lines 297-358: the combined summary and the response
Summarize(r) ==
    /\ run[r].pc = "summary"
    /\ Set(r, [run[r] EXCEPT
                  !.pc = "done", !.outcome = "report",
                  !.summary = BuildSummary(run[r].results,
                                           run[r].text_comparison,
                                           run[r].multimodal_results)])

Init ==
    /\ \E image_type \in ImageTypes, models \in ModelsInputs :
          run = [r \in Runs |->
                    IF r = "r1" THEN NewRun(image_type, models) ELSE NoRun]
    /\ ScoreIdle
    /\ AggIdle

Step(r) ==
    \/ ValidateImage(r)
    \/ ParseModels(r)
    \/ ValidateModels(r)
    \/ ReadImage(r)
    \/ LoopHead(r)
    \/ Cooldown(r)
    \/ ExecBegin(r)
    \/ ExecComplete(r)
    \/ Pause(r)
    \/ Aggregate(r)
    \/ ItmInit(r)
    \/ ItmScore(r)
    \/ Unlink(r)
    \/ Summarize(r)

Next == \E r \in Runs : Step(r)

Spec == Init /\ [][Next]_vars


(***************************************************************************)
(* Properties of the compare-models run.                                   *)
(***************************************************************************)
Started == {r \in Runs : run[r].pc # "idle"}

\* entries of a summary that stand for a successful response
OkEntries(ms) == {i \in DOMAIN ms : ms[i].success_rate > 0}

\* the model called `name` is a successful entry that attains the greatest
\* value of key among the successful entries
AttainsMax(ms, name, key) ==
    \E i \in OkEntries(ms) :
        /\ ms[i].model_name = name
        /\ \A j \in OkEntries(ms) : ms[j][key] <= ms[i][key]

C7_ExecuteNeverRaises ==
    \A r \in Started :
        \A j \in DOMAIN run[r].calls :
            LET c == run[r].calls[j]
                res == run[r].results[j]
            IN  /\ ~c.raised
                /\ Fails(c.env) =>
                     /\ ~res.success /\ res.response = <<>>
                     /\ res.error # None
                     /\ res.execution_time = c.env.elapsed
                     /\ res.execution_time >= 0
                /\ ~Fails(c.env) =>
                     /\ res.success /\ res.error = None
                     /\ res.response = c.env.output

\* one call failed at get_agent, another at agent.run after 70 seconds
C7_Witness ==
    \E r \in Started :
        \E a, b \in DOMAIN run[r].calls :
            /\ run[r].calls[a].env.agent = "raises"
            /\ ~run[r].results[a].success
            /\ run[r].calls[b].env.run = "raises"
            /\ run[r].results[b].execution_time = 70
            /\ ~run[r].results[b].success

\* the request list is one the validation must refuse
Refused(models) ==
    \/ Len(models.configs) < 2
    \/ \E i \in DOMAIN models.configs :
           models.configs[i].provider \notin {"gemini", "ollama"}

NothingExecuted(rr) ==
    /\ rr.calls = <<>> /\ rr.results = <<>> /\ rr.inflight = {}
    /\ rr.log = <<>> /\ rr.analyzer = "none" /\ rr.multimodal_results = <<>>

\* C8: a compare request whose model list has fewer than 2 entries, or
\* holds an entry whose provider is neither gemini nor ollama, is rejected
\* with a validation error before any model is executed: no inference
\* call, eviction or ITM scoring happens in that run, also when other
\* entries of the list are valid.
C8_RefusedBeforeExecution ==
    \A r \in Started :
        (run[r].models.json_ok /\ Refused(run[r].models)) =>
            /\ NothingExecuted(run[r])
            /\ run[r].pc \in {"request", "parse", "validate", "done"}
            /\ run[r].pc = "done" => run[r].outcome = "HTTP400"

\* a list of a valid and an invalid entry, with a valid image, refused
C8_Witness ==
    \E r \in Started :
        /\ run[r].image_type = "image/jpeg"
        /\ run[r].models.json_ok
        /\ Len(run[r].models.configs) = 2
        /\ run[r].models.configs[1].provider = "gemini"
        /\ run[r].models.configs[2].provider = "openai"
        /\ run[r].pc = "done" /\ run[r].outcome = "HTTP400"

\* the execution loop of the run is over
LoopOver(rr) ==
    \/ rr.pc \in {"aggregate", "itm_init", "itm", "unlink", "summary"}
    \/ rr.pc = "done" /\ rr.outcome \in {"report", "HTTP500"}

\* C9: after the execution loop the results list holds exactly one entry
\* per request, in request order, whether each execution succeeded or
\* failed; a failure of request i never prevents the requests after i from
\* being executed.
C9_OneResultPerRequest ==
    \A r \in Started :
        LoopOver(run[r]) =>
            /\ Len(run[r].results) = Len(run[r].models_config)
            /\ Len(run[r].calls) = Len(run[r].models_config)
            /\ \A i \in DOMAIN run[r].results :
                /\ run[r].calls[i].i = i
                /\ run[r].results[i].provider = run[r].models_config[i].provider
                /\ run[r].results[i].model_name =
                       get_model_display_name(run[r].models_config[i])

\* the first request failed and the second one was executed and succeeded
C9_Witness ==
    \E r \in Started :
        /\ LoopOver(run[r])
        /\ Len(run[r].results) = 2
        /\ ~run[r].results[1].success
        /\ run[r].results[2].success
        /\ run[r].results[1].model_name # run[r].results[2].model_name

\* the log of a run restricted to the starts and ends of inference calls
RunEvents(log) == SelectSeq(log, LAMBDA ev : ev.e \in {"run_start", "run_end"})

\* C10: within one compare run at most one model inference call is in
\* flight at any time: the call for request i+1 starts only after the call
\* for request i has completed or failed.
C10_OneCallInFlight ==
    \A r \in Started :
        /\ Cardinality(run[r].inflight) <= 1
        /\ LET ev == RunEvents(run[r].log) IN
           \A p \in DOMAIN ev :
               /\ ev[p].e = "run_start" =>
                    (p > 1 => ev[p - 1].e = "run_end" /\ ev[p - 1].i < ev[p].i)
               /\ ev[p].e = "run_end" =>
                    (p > 1 /\ ev[p - 1] = Event("run_start", ev[p].i))

\* the second call is in flight after the first has ended
C10_Witness ==
    \E r \in Started :
        /\ run[r].inflight = {2}
        /\ RunEvents(run[r].log) =
              <<Event("run_start", 1), Event("run_end", 1), Event("run_start", 2)>>


(***************************************************************************)
(* Properties of the ITM scoring and of the report.                        *)
(***************************************************************************)
\* the run ended and returned its report
Reported(rr) == rr.pc = "done" /\ rr.outcome = "report"

\* C11: if the ITM scoring subsystem cannot initialize (the scorer cannot
\* be constructed or its model cannot be loaded), the compare run is not
\* aborted and every model in the run receives itm_score = 0.0.
C11_DegradedItmZero ==
    \A r \in Started :
        (run[r].analyzer \in {"raised", "unavailable"} /\ run[r].pc = "done") =>
            /\ run[r].outcome = "report"
            /\ \A i \in DOMAIN run[r].summary.metrics_summary :
                   run[r].summary.metrics_summary[i].itm_score = 0

\* C12: a compare run in which every requested model fails does not end in
\* an error: it returns a report whose winner is the "no winner" sentinel,
\* the step that builds the recommendation included.
C12_AllFailedReport ==
    \A r \in Started :
        ( /\ run[r].pc = "done"
          /\ run[r].results # <<>>
          /\ Successes(run[r].results) = {} ) =>
            /\ run[r].outcome = "report"
            /\ run[r].summary.winner = NoWinner

\* the tier wording for an overall score given in 1/10000000 points
Tier(overall_score) ==
    IF overall_score < 30000000 THEN "unsatisfactory"
    ELSE IF overall_score < 60000000 THEN "moderate"
    ELSE IF overall_score < 80000000 THEN "good"
    ELSE "excellent"

At(log, e) == {p \in DOMAIN log : log[p].e = e}

\* C15: in a compare run the phases are strictly ordered: every request's
\* execution finishes before the first ITM scoring call; ITM is scored
\* exactly once for each successful result and never for a failed one; the
\* Aggregator is invoked only after all ITM scoring has finished, with the
\* resulting ITM scores as its input.
C15_PhasesOrdered ==
    \A r \in Started :
        LET rr == run[r]
            log == rr.log
        IN  /\ rr.itm_calls # <<>> =>
                 /\ Len(rr.results) = Len(rr.models_config)
                 /\ rr.inflight = {}
            /\ \A p \in At(log, "itm") :
                 /\ \A q \in At(log, "run_start") \cup At(log, "run_end") : q < p
                 /\ rr.results[log[p].i].success
                 /\ \A q \in At(log, "itm") : q # p => log[q].i # log[p].i
            /\ \A p \in At(log, "aggregate") :
                 \A i \in Successes(rr.results) :
                     /\ \E q \in At(log, "itm") : q < p /\ log[q].i = i
                     /\ \A c \in DOMAIN rr.itm_calls :
                          (rr.itm_calls[c].k = i /\ ~rr.itm_calls[c].ret.raised) =>
                              DictGet(rr.text_comparison.metrics_by_model.val,
                                      rr.results[i].model_name, NoValue).itm_score
                                  = rr.itm_calls[c].ret.value

IsOllama(model_config) == model_config.provider = "ollama"

\* C16: whenever a local (ollama) request is executed after an earlier
\* local request of the same run, the eviction of the loaded local models
\* and the cooldown wait happen after the earlier invocation has finished
\* and before the later one starts, whether the earlier invocation
\* succeeded or failed.
C16_EvictionBetweenLocal ==
    \A r \in Started :
        LET rr == run[r] IN
        ( /\ rr.pc = "exec"
          /\ IsOllama(rr.models_config[rr.i])
          /\ \E j \in 1..(rr.i - 1) : IsOllama(rr.models_config[j]) ) =>
            /\ rr.inflight = {}
            /\ Len(rr.log) >= 2
            /\ rr.log[Len(rr.log) - 1] = Event("evict", rr.i)
            /\ rr.log[Len(rr.log)] = Event("cooldown", rr.i)

\* The weights of the scoring model are held by the analyzer object from
\* its __init__ (from_pretrained, lines 26-30) for as long as the local
\* multimodal_analyzer of compare_models lives; nothing unloads them.
WeightsResident(rr) == rr.analyzer = "loaded" /\ rr.pc # "done"

\* C17: the ITM scorer's model weights are resident only during a scoring
\* call: not before the first call begins, released after every call
\* returns, never resident between two scoring calls or while a model
\* inference call runs.  A scoring call is one step, so the weights must be
\* absent in every state at the head of the scoring loop (before the first
\* call, between calls, after the last) and whenever a call is in flight.
C17_WeightsOnlyDuringScoring ==
    \A r \in Started :
        /\ run[r].pc \in {"itm", "unlink", "summary"} => ~WeightsResident(run[r])
        /\ (\E q \in Started : run[q].inflight # {}) => ~WeightsResident(run[r])

\* C18: compute_itm_score never raises and keeps the asymmetric failure
\* policy: it returns 0.5 exactly when the scoring model or its processor
\* is unavailable, and 0.0 whenever an error occurs during scoring with the
\* model available; never 0.5 for a scoring error nor 0.0 for an
\* unavailable model.
C18_ItmFailurePolicy ==
    \A r \in Started :
        \A c \in DOMAIN run[r].itm_calls :
            LET call == run[r].itm_calls[c] IN
            /\ ~call.ret.raised
            /\ call.ret.value = 50 <=> call.blip = "unavailable"
            /\ (call.blip = "loaded" /\ call.o.kind = "raises") =>
                   call.ret.value = 0

(***************************************************************************)
(* Further properties of the scores.                                       *)
(***************************************************************************)
\* C21: analyze_content_quality sets well_structured to true exactly when
\* the text has more than 2 non-empty "."-delimited segments and does not
\* begin with "Sorry"; a text of two sentences, each ending in a full stop,
\* is not well structured.
C21_WellStructured ==
    AnalysedSuccess =>
        LET text == response.response
            non_empty == SelectSeq(Split(text), LAMBDA s : s # <<>>)
        IN  metrics.well_structured <=>
                (Len(non_empty) > 2 /\ ~StartsWithSorry(text))

C27_MonotoneInTime ==
    AnalysedSuccess =>
        \A t \in 0..MaxTime :
            t > response.execution_time =>
                LET slower == analyze_model_response(
                                  [response EXCEPT !.execution_time = t],
                                  itm_arg)
                IN  /\ slower.quality_score = metrics.quality_score
                    /\ slower.overall_score <= metrics.overall_score

\* C28: a result's overall_score is 0 if and only if the result failed:
\* every successful result, whatever its text, itm_score and
\* execution_time, gets overall_score > 0, so a failed model can never tie
\* with or outrank a successful one on overall_score.
C28_ZeroIffFailed ==
    metrics # NoValue =>
        /\ metrics.overall_score >= 0
        /\ metrics.overall_score = 0 <=> ~response.success

\* the least a successful result can get: an empty text, itm 0.0 and more
\* than 120 seconds, overall 0.7 * 0 + 0.3 * 1.0 = 0.3
C28_Witness ==
    /\ AnalysedSuccess
    /\ response.response = <<>>
    /\ itm_arg = 0
    /\ response.execution_time > 120
    /\ metrics.quality_score = 0
    /\ metrics.overall_score = 300

(***************************************************************************)
(* Further properties of the Aggregator (SpecAgg).                         *)
(***************************************************************************)
\* C23: metrics_by_model holds exactly one entry per distinct model_name of
\* the input list; when several results share a model_name the entry holds
\* the metrics of the last such result in input order, while total_models
\* still counts every input result.
C23_OneEntryPerName ==
    Returned =>
        LET d == comparison.metrics_by_model
            names == {responses[i].model_name : i \in DOMAIN responses}
            Last(n) == CHOOSE i \in DOMAIN responses :
                           /\ responses[i].model_name = n
                           /\ \A j \in DOMAIN responses :
                                  j > i => responses[j].model_name # n
        IN  /\ {d.keys[i] : i \in DOMAIN d.keys} = names
            /\ Len(d.keys) = Cardinality(names)
            /\ DOMAIN d.val = names
            /\ \A n \in names : d.val[n] = analyzed[Last(n)]
            /\ comparison.total_models = Len(responses)

\* three results, the first and the last of the same name with different
\* metrics: two entries, three models counted
C23_Witness ==
    /\ Returned
    /\ Len(responses) = 3
    /\ responses[1].model_name = responses[3].model_name
    /\ responses[2].model_name # responses[1].model_name
    /\ analyzed[1] # analyzed[3]
    /\ Len(comparison.metrics_by_model.keys) = 2
    /\ comparison.metrics_by_model.val[responses[1].model_name] = analyzed[3]
    /\ comparison.total_models = 3

\* C25: for every accepted request, execute_model passes the image to the
\* model exactly when the model it reports in the result's model_name is
\* vision-capable according to the capability table; this includes a local
\* request with no model_name, which runs and reports the default model
\* gemma3:4b.
C25_ImageIffVisionCapable ==
    \A r \in Started :
        \A j \in DOMAIN run[r].calls :
            LET c == run[r].calls[j]
                res == run[r].results[j]
            IN  ReachesRun(c.env) =>
                    (c.image <=>
                        has_vision_capability(res.provider, res.model_name))

KeysOf(d) == {d.keys[i] : i \in DOMAIN d.keys}

\* C29: in every report returned by the Aggregator, fastest_model and
\* slowest_model are keys of metrics_by_model (also when no model succeeded,
\* where they are the argmin and argmax of execution_time over the failed
\* results), and most_detailed_model, highest_quality_model and winner are
\* keys of metrics_by_model exactly when at least one result succeeded.
C29_WinnersAreKeys ==
    Returned =>
        LET names == KeysOf(comparison.metrics_by_model)
            all == DOMAIN responses
            some_success == Successes(responses) # {}
        IN  /\ comparison.fastest_model \in names
            /\ comparison.slowest_model \in names
            /\ ~some_success =>
                 /\ \E i \in all :
                      /\ NameAt(i) = comparison.fastest_model
                      /\ \A j \in all : TimeOf[i] <= TimeOf[j]
                 /\ \E i \in all :
                      /\ NameAt(i) = comparison.slowest_model
                      /\ \A j \in all : TimeOf[i] >= TimeOf[j]
            /\ comparison.most_detailed_model \in names <=> some_success
            /\ comparison.highest_quality_model \in names <=> some_success
            /\ comparison.winner \in names <=> some_success

(***************************************************************************)
(* SpecConc: the execution loops (main.py 181-218) of two POST             *)
(* /compare-models requests served by the same process.  Each request is a *)
(* coroutine of the one event loop; a coroutine runs until its next await  *)
(* (the inference call, a sleep), where the other may be resumed.  Both    *)
(* requests ask for two local models and have reached the loop.            *)
(***************************************************************************)
LocalPair == <<ModelConfig("ollama", None), ModelConfig("ollama", "qwen2.5vl:7b")>>

\* the locals of a run that enters the loop (line 181): the request was
\* validated, the image read and the temporary file written
AtLoop(models_config) ==
    [ NewRun("image/jpeg", [json_ok |-> TRUE, configs |-> models_config])
        EXCEPT !.models_config = models_config, !.temp = "exists",
               !.pc = "loop", !.i = 1 ]

InitConc ==
    /\ run = [r \in Runs |-> AtLoop(LocalPair)]
    /\ ScoreIdle
    /\ AggIdle

LoopStep(r) ==
    \/ LoopHead(r)
    \/ Cooldown(r)
    \/ ExecBegin(r)
    \/ ExecComplete(r)
    \/ Pause(r)

NextConc == \E r \in Runs : LoopStep(r)

SpecConc == InitConc /\ [][NextConc]_vars

\* the local-model inference calls of a run that are in flight
InFlightLocal(rr) == {i \in rr.inflight : IsOllama(rr.models_config[i])}

\* every inference call in flight, over all runs
AllInFlight(rs) == UNION { {<<q, i>> : i \in rs[q].inflight} : q \in Runs }

\* this step is the eviction (ollama stop) of run r
Evicts(r) ==
    /\ Len(run'[r].log) = Len(run[r].log) + 1
    /\ run'[r].log[Len(run'[r].log)].e = "evict"

\* C24: across all compare runs served concurrently by the same process, an
\* eviction of loaded local models (ollama stop) issued by one run never
\* takes place while a local-model inference call of any run is in flight,
\* and no two model inference calls are in flight at the same time.
C24_NoOverlapAcrossRuns ==
    [][ /\ \A r \in Runs :
            Evicts(r) => \A q \in Runs : InFlightLocal(run[q]) = {}
        /\ Cardinality(AllInFlight(run')) <= 1 ]_vars

=============================================================================
